---- MODULE Spec2Model ----
(***************************************************************************)
(* A model of package glob (src/glob.go): compiling include and exclude    *)
(* pattern strings into pattern sets (New, newPatterns, newPattern), the   *)
(* pattern-set advancer (matchDir, matchFile), the two fast paths          *)
(* (always/allStep, literal), the tree walker (matchStep) and the          *)
(* path-membership tester (MatchPath).                                     *)
(*                                                                         *)
(* A Go string is a tuple of one-character strings: "a/**" is              *)
(* <<"a","/","*","*">>.  A path handed to or emitted by the walker is the  *)
(* tuple of its names, "." being <<>>: path.Join(dir, name) appends a      *)
(* name.  A pattern is a tuple of terms, a term being a string.            *)
(***************************************************************************)
EXTENDS Naturals, Sequences, FiniteSets, TLC

\* ------------------------------------------------------------------ bounds
\* Most terms in the pattern strings of one include list.
MaxIncTerms == 3
\* Most terms in the pattern strings of one exclude list.
MaxExcTerms == 2
\* Most entries (files and directories below the root) of a tree.
MaxNodes == 3

\* ----------------------------------------------------------------- strings
A == <<"a">>
B == <<"b">>
Star == <<"*">>
StarStar == <<"*", "*">>
Bad == <<"[">>
Empty == <<>>

RECURSIVE SplitAcc(_, _, _)
SplitAcc(s, cur, acc) ==
    IF s = <<>> THEN (IF cur = <<>> THEN acc ELSE Append(acc, cur))
    ELSE IF Head(s) = "/"
         THEN SplitAcc(Tail(s), <<>>, IF cur = <<>> THEN acc ELSE Append(acc, cur))
         ELSE SplitAcc(Tail(s), Append(cur, Head(s)), acc)

\* slices.Collect(fx.Filter(strings.SplitSeq(p, "/"), s != "")): the non-empty
\* components of p between slashes, in order.
SplitNonEmpty(p) == SplitAcc(p, <<>>, <<>>)

RECURSIVE JoinSlash(_)
\* The components joined by "/" (the string a caller writes for them).
JoinSlash(ts) ==
    IF ts = <<>> THEN <<>>
    ELSE IF Len(ts) = 1 THEN ts[1]
    ELSE ts[1] \o <<"/">> \o JoinSlash(Tail(ts))

\* path.Join(dir, name) on clean paths: "." and "" elements vanish.
PathJoin(dir, name) == IF name = <<>> THEN dir ELSE Append(dir, name)

\* path.Match(p, ""), error part: the pattern is malformed.  Over this model's
\* characters (no "]" and no backslash) a pattern is malformed exactly when it
\* opens a character class, which nothing can close.
ErrBadPattern(p) == \E i \in 1..Len(p) : p[i] = "["

RECURSIVE PathMatch(_, _)
\* path.Match(pattern, name), match part, for a well-formed pattern over
\* literal characters, "?" and "*" and a name without "/".
PathMatch(pat, name) ==
    IF pat = <<>> THEN name = <<>>
    ELSE IF Head(pat) = "*"
         THEN PathMatch(Tail(pat), name)
              \/ (name /= <<>> /\ PathMatch(pat, Tail(name)))
    ELSE IF Head(pat) = "?"
         THEN name /= <<>> /\ PathMatch(Tail(pat), Tail(name))
    ELSE name /= <<>> /\ Head(name) = Head(pat) /\ PathMatch(Tail(pat), Tail(name))

\* func match: path.Match with its error dropped (an error is no match).
match(pat, name) == ~ErrBadPattern(pat) /\ PathMatch(pat, name)

\* ---------------------------------------------------------------- compiler
\* newPattern appending the pattern alone, a leading "**" or not.
newPatternNoSuffix(p, patterns) ==
    IF ErrBadPattern(p) THEN [err |-> TRUE, patterns |-> patterns]
    ELSE LET split == SplitNonEmpty(p)
             steps == IF Len(split) = 0 THEN <<Empty>> ELSE split
         IN  [err |-> FALSE, patterns |-> Append(patterns, steps)]

\* func newPattern: the error, and the patterns list after the call.
newPattern(p, patterns) ==
    IF ErrBadPattern(p) THEN [err |-> TRUE, patterns |-> patterns]
    ELSE LET split == SplitNonEmpty(p)
             steps == IF Len(split) = 0 THEN <<Empty>> ELSE split
             one   == Append(patterns, steps)
         IN  [err |-> FALSE,
              patterns |-> IF steps[1] = StarStar /\ Len(steps) /= 1
                           THEN Append(one, Tail(steps)) ELSE one]

RECURSIVE newPatternsFromFailFast(_, _, _, _)
\* newPatterns returning at the first malformed string.
newPatternsFromFailFast(ps, i, patterns, errs) ==
    IF i > Len(ps) \/ errs /= <<>> THEN [patterns |-> patterns, errs |-> errs]
    ELSE LET r == newPattern(ps[i], patterns)
         IN  newPatternsFromFailFast(ps, i + 1, r.patterns,
                             IF r.err THEN Append(errs, "ErrBadPattern") ELSE errs)

RECURSIVE newPatternsFrom(_, _, _, _)
newPatternsFrom(ps, i, patterns, errs) ==
    IF i > Len(ps) THEN [patterns |-> patterns, errs |-> errs]
    ELSE LET r == newPattern(ps[i], patterns)
         IN  newPatternsFrom(ps, i + 1, r.patterns,
                             IF r.err THEN Append(errs, "ErrBadPattern") ELSE errs)

\* func newPatterns: the compiled list and the joined errors (<<>> is nil).
newPatterns(ps) == newPatternsFrom(ps, 1, <<>>, <<>>)

\* slices.Contains(list, "**")
ContainsStarStar(list) == \E i \in 1..Len(list) : list[i] = StarStar

NilGlob == [kind |-> "nil", include |-> <<>>, exclude |-> <<>>]
allGlob == [kind |-> "all", include |-> <<>>, exclude |-> <<>>]
noneGlob == [kind |-> "none", include |-> <<>>, exclude |-> <<>>]

\* New without the check for "**" among the excludes.
NewNoExcludeAll(includes, excludes) ==
    IF Len(excludes) = 0 /\ ContainsStarStar(includes)
    THEN [glob |-> allGlob, err |-> <<>>]
    ELSE IF Len(includes) = 0
    THEN [glob |-> noneGlob, err |-> <<>>]
    ELSE LET inc == newPatterns(includes)
             exc == newPatterns(excludes)
             err == inc.errs \o exc.errs
         IN  IF err /= <<>> THEN [glob |-> NilGlob, err |-> err]
             ELSE [glob |-> [kind |-> "match", include |-> inc.patterns,
                             exclude |-> exc.patterns],
                   err |-> <<>>]

\* func New: the Glob and the error (a tuple of syntax errors, <<>> is nil).
New(includes, excludes) ==
    IF Len(excludes) = 0 /\ ContainsStarStar(includes)
    THEN [glob |-> allGlob, err |-> <<>>]
    ELSE IF Len(includes) = 0 \/ ContainsStarStar(excludes)
    THEN [glob |-> noneGlob, err |-> <<>>]
    ELSE LET inc == newPatterns(includes)
             exc == newPatterns(excludes)
             err == inc.errs \o exc.errs
         IN  IF err /= <<>> THEN [glob |-> NilGlob, err |-> err]
             ELSE [glob |-> [kind |-> "match", include |-> inc.patterns,
                             exclude |-> exc.patterns],
                   err |-> <<>>]

\* ---------------------------------------------------------------- advancer
\* func (p pattern) matchDir: the result and the patterns list after the call.
matchDir(p, name, patterns) ==
    LET step == p[1]
        rest == Tail(p)
        kept == IF step = StarStar THEN Append(patterns, p) ELSE patterns
    IN  IF step /= StarStar /\ ~match(step, name)
        THEN [ok |-> FALSE, patterns |-> patterns]
        ELSE IF Len(rest) = 0 THEN [ok |-> TRUE, patterns |-> kept]
        ELSE [ok |-> FALSE, patterns |-> Append(kept, rest)]

\* func (p pattern) matchFile
matchFile(p, name) == Len(p) = 1 /\ (p[1] = StarStar \/ match(p[1], name))

\* func always
always(patterns) ==
    \E i \in 1..Len(patterns) : Len(patterns[i]) = 1 /\ patterns[i][1] = StarStar

\* func hasMeta: strings.ContainsAny(p, "*?[\\")
hasMeta(p) == \E i \in 1..Len(p) : p[i] \in {"*", "?", "[", "\\"}

\* func literal: (name, next, ok)
literal(patterns) ==
    IF Len(patterns) /= 1 THEN [name |-> <<>>, next |-> <<>>, ok |-> FALSE]
    ELSE LET p == patterns[1]
         IN  IF hasMeta(p[1]) THEN [name |-> <<>>, next |-> <<>>, ok |-> FALSE]
             ELSE [name |-> p[1],
                   next |-> IF Len(p) > 1 THEN <<Tail(p)>> ELSE <<>>,
                   ok |-> TRUE]

\* The loop "for _, p := range ps { p.matchDir(name, &next) }": the list built
\* and whether any call returned true; with stop, the loop ends at the first
\* call that returns true.
RECURSIVE advanceFrom(_, _, _, _, _, _)
advanceFrom(ps, i, name, next, any, stop) ==
    IF i > Len(ps) THEN [ok |-> any, patterns |-> next]
    ELSE LET r == matchDir(ps[i], name, next)
         IN  IF r.ok /\ stop THEN [ok |-> TRUE, patterns |-> r.patterns]
             ELSE advanceFrom(ps, i + 1, name, r.patterns, any \/ r.ok, stop)

advance(ps, name, stop) == advanceFrom(ps, 1, name, <<>>, FALSE, stop)

\* The walker going down whenever the excludes allow, patterns left or not.
shouldDescendNoPrune(nextInclude, nextExclude) == ~always(nextExclude)

\* The walker going down whenever include patterns are left, excluded or not.
shouldDescendIgnoreExclude(nextInclude, nextExclude) == Len(nextInclude) /= 0

\* The condition "len(nextInclude) != 0 && !always(nextExclude)" under which the
\* walker goes down into a directory.
shouldDescend(nextInclude, nextExclude) ==
    Len(nextInclude) /= 0 /\ ~always(nextExclude)

\* The loop "for _, p := range ps { if p.matchFile(name) ... }".
anyMatchFile(ps, name) == \E i \in 1..Len(ps) : matchFile(ps[i], name)

\* ------------------------------------------------------------ MatchPath
RECURSIVE matchPathFrom(_, _, _, _)
\* The body of matchGlob.MatchPath from names[i] on.
matchPathFrom(names, i, include, exclude) ==
    LET exc == advance(exclude, names[i], TRUE)
        inc == advance(include, names[i], i = Len(names))
    IN  IF exc.ok THEN FALSE
        ELSE IF i = Len(names) THEN inc.ok
        ELSE IF Len(inc.patterns) = 0 THEN FALSE
        ELSE matchPathFrom(names, i + 1, inc.patterns, exc.patterns)

\* func (g *matchGlob) MatchPath, (allGlob) MatchPath, (noneGlob) MatchPath
MatchPath(g, p) ==
    IF g.kind = "all" THEN TRUE
    ELSE IF g.kind = "none" THEN FALSE
    ELSE LET names == SplitNonEmpty(p)
         IN  IF Len(names) = 0 THEN FALSE
             ELSE matchPathFrom(names, 1, g.include, g.exclude)

\* ---------------------------------------------------------- the fs.FS
\* The names an entry can have, in the order fs.ReadDir sorts them.
NameOrder == <<A, B>>

\* fs.ReadDir(fsys, dir): the error ("nil" for none) and the entries of dir,
\* sorted by name.
ReadDir(fsys, dir) ==
    IF dir \notin fsys.dirs \cup fsys.files
    THEN [err |-> "ErrNotExist", infos |-> <<>>]
    ELSE IF dir \in fsys.files THEN [err |-> "ENOTDIR", infos |-> <<>>]
    ELSE IF dir \in fsys.failRead THEN [err |-> "ErrPermission", infos |-> <<>>]
    ELSE LET present == SelectSeq(NameOrder,
                 LAMBDA n : Append(dir, n) \in fsys.dirs \cup fsys.files)
         IN  [err |-> "nil",
              infos |-> [k \in 1..Len(present) |->
                            [name |-> present[k],
                             isDir |-> Append(dir, present[k]) \in fsys.dirs]]]

\* fs.Stat(fsys, p): the error and info.IsDir().
Stat(fsys, p) ==
    IF p \notin fsys.dirs \cup fsys.files THEN [err |-> "ErrNotExist", isDir |-> FALSE]
    ELSE IF p \in fsys.failStat THEN [err |-> "ErrPermission", isDir |-> FALSE]
    ELSE [err |-> "nil", isDir |-> p \in fsys.dirs]

\* ------------------------------------------------------------- the walker
\* A traversal's record: the calls made so far, in order (ReadDir, Stat and
\* yield), the number of yields, and the yield at which the consumer returns
\* false (0: it never does).
NewTraversal(stopAt) == [log |-> <<>>, yields |-> 0, stopAt |-> stopAt]

Logged(t, op, p, err) ==
    [t EXCEPT !.log = Append(@, [op |-> op, path |-> p, err |-> err])]

\* yield(path, err): the call is recorded and the consumer answers.
yield(t, p, err) ==
    LET t1 == [Logged(t, "yield", p, err) EXCEPT !.yields = @ + 1]
    IN  [t |-> t1, ok |-> t1.yields /= t1.stopAt]

Return(t, ok) == [t |-> t, ok |-> ok]

RECURSIVE allStep(_, _, _, _, _)
RECURSIVE allEntries(_, _, _, _, _, _)
RECURSIVE matchStep(_, _, _, _, _, _, _)
RECURSIVE matchEntries(_, _, _, _, _, _, _, _)

\* The loop of allStep over infos[i..].
allEntries(t, fsys, dir, includeDirs, infos, i) ==
    IF i > Len(infos) THEN Return(t, TRUE)
    ELSE LET p == PathJoin(dir, infos[i].name)
             r == IF infos[i].isDir THEN allStep(t, fsys, p, TRUE, includeDirs)
                  ELSE yield(t, p, "nil")
         IN  IF ~r.ok THEN Return(r.t, FALSE)
             ELSE allEntries(r.t, fsys, dir, includeDirs, infos, i + 1)

\* allStep yielding every directory it is asked to, includeDirs or not.
allStepAlwaysDirs(t, fsys, dir, yieldDir, includeDirs) ==
    LET rd == ReadDir(fsys, dir)
        t1 == Logged(t, "ReadDir", dir, rd.err)
        y  == yield(t1, dir, "nil")
    IN  IF rd.err /= "nil" THEN yield(t1, dir, rd.err)
        ELSE IF yieldDir /\ ~y.ok THEN Return(y.t, FALSE)
        ELSE allEntries(IF yieldDir THEN y.t ELSE t1,
                        fsys, dir, includeDirs, rd.infos, 1)

\* func allStep
allStep(t, fsys, dir, yieldDir, includeDirs) ==
    LET rd == ReadDir(fsys, dir)
        t1 == Logged(t, "ReadDir", dir, rd.err)
        y  == yield(t1, dir, "nil")
    IN  IF rd.err /= "nil" THEN yield(t1, dir, rd.err)
        ELSE IF yieldDir /\ includeDirs /\ ~y.ok THEN Return(y.t, FALSE)
        ELSE allEntries(IF yieldDir /\ includeDirs THEN y.t ELSE t1,
                        fsys, dir, includeDirs, rd.infos, 1)

\* The literal fast-path reporting a missing name as it reports any other
\* failure of the probe.
matchLiteralMissIsError(t, fsys, dir, includeDirs, name, nextInclude, exclude) ==
    IF anyMatchFile(exclude, name) THEN Return(t, TRUE)
    ELSE LET p  == PathJoin(dir, name)
             s  == Stat(fsys, p)
             t1 == Logged(t, "Stat", p, s.err)
             nextExclude == advance(exclude, name, FALSE).patterns
         IN  IF s.err /= "nil" THEN yield(t1, dir, s.err)
             ELSE IF s.isDir /\ shouldDescend(nextInclude, nextExclude)
             THEN matchStep(t1, fsys, p, includeDirs, includeDirs,
                            nextInclude, nextExclude)
             ELSE IF s.isDir /\ ~includeDirs THEN Return(t1, TRUE)
             ELSE yield(t1, p, "nil")

\* matchStep, the literal fast-path (the body of "else if name, nextInclude,
\* ok := literal(include); ok").
matchLiteral(t, fsys, dir, includeDirs, name, nextInclude, exclude) ==
    IF anyMatchFile(exclude, name) THEN Return(t, TRUE)
    ELSE LET p  == PathJoin(dir, name)
             s  == Stat(fsys, p)
             t1 == Logged(t, "Stat", p, s.err)
             nextExclude == advance(exclude, name, FALSE).patterns
         IN  IF s.err /= "nil"
             THEN IF s.err = "ErrNotExist" THEN Return(t1, TRUE)
                  ELSE yield(t1, dir, s.err)
             ELSE IF s.isDir /\ shouldDescend(nextInclude, nextExclude)
             THEN matchStep(t1, fsys, p, includeDirs, includeDirs,
                            nextInclude, nextExclude)
             ELSE IF s.isDir /\ ~includeDirs THEN Return(t1, TRUE)
             ELSE yield(t1, p, "nil")

\* The loop of matchStep going on to the next entry when a recursive call or a
\* yield returned false.
matchEntriesNoUnwind(t, fsys, dir, includeDirs, include, exclude, infos, i) ==
    IF i > Len(infos) THEN Return(t, TRUE)
    ELSE
    LET name == infos[i].name
        p    == PathJoin(dir, name)
        exc  == advance(exclude, name, TRUE)
        inc  == advance(include, name, FALSE)
        descend == shouldDescend(inc.patterns, exc.patterns)
        r    == IF ~infos[i].isDir
                THEN IF ~anyMatchFile(exclude, name) /\ anyMatchFile(include, name)
                     THEN yield(t, p, "nil") ELSE Return(t, TRUE)
                ELSE IF exc.ok THEN Return(t, TRUE)
                ELSE IF descend
                THEN matchStep(t, fsys, p, inc.ok /\ includeDirs, includeDirs,
                               inc.patterns, exc.patterns)
                ELSE IF inc.ok /\ includeDirs THEN yield(t, p, "nil")
                ELSE Return(t, TRUE)
    IN  matchEntries(r.t, fsys, dir, includeDirs, include, exclude, infos, i + 1)

\* The loop of matchStep without "included = false" after the recursive call:
\* a matched directory is yielded by the callee and again by the loop.
matchEntriesKeepIncluded(t, fsys, dir, includeDirs, include, exclude, infos, i) ==
    IF i > Len(infos) THEN Return(t, TRUE)
    ELSE
    LET name == infos[i].name
        p    == PathJoin(dir, name)
        exc  == advance(exclude, name, TRUE)
        inc  == advance(include, name, FALSE)
        descend == shouldDescend(inc.patterns, exc.patterns)
        down == matchStep(t, fsys, p, inc.ok /\ includeDirs, includeDirs,
                          inc.patterns, exc.patterns)
        r    == IF ~infos[i].isDir
                THEN IF ~anyMatchFile(exclude, name) /\ anyMatchFile(include, name)
                     THEN yield(t, p, "nil") ELSE Return(t, TRUE)
                ELSE IF exc.ok THEN Return(t, TRUE)
                ELSE IF descend /\ ~down.ok THEN down
                ELSE IF inc.ok /\ includeDirs
                THEN yield(IF descend THEN down.t ELSE t, p, "nil")
                ELSE Return(IF descend THEN down.t ELSE t, TRUE)
    IN  IF ~r.ok THEN Return(r.t, FALSE)
        ELSE matchEntries(r.t, fsys, dir, includeDirs, include, exclude, infos, i + 1)

\* matchStep, the loop "for _, i := range infos" over infos[i..].
matchEntries(t, fsys, dir, includeDirs, include, exclude, infos, i) ==
    IF i > Len(infos) THEN Return(t, TRUE)
    ELSE
    LET name == infos[i].name
        p    == PathJoin(dir, name)
        exc  == advance(exclude, name, TRUE)
        inc  == advance(include, name, FALSE)
        descend == shouldDescend(inc.patterns, exc.patterns)
        r    == IF ~infos[i].isDir
                THEN IF ~anyMatchFile(exclude, name) /\ anyMatchFile(include, name)
                     THEN yield(t, p, "nil") ELSE Return(t, TRUE)
                ELSE IF exc.ok THEN Return(t, TRUE)
                ELSE IF descend
                THEN matchStep(t, fsys, p, inc.ok /\ includeDirs, includeDirs,
                               inc.patterns, exc.patterns)
                ELSE IF inc.ok /\ includeDirs THEN yield(t, p, "nil")
                ELSE Return(t, TRUE)
    IN  IF ~r.ok THEN Return(r.t, FALSE)
        ELSE matchEntries(r.t, fsys, dir, includeDirs, include, exclude, infos, i + 1)

\* The general path ending the whole traversal when a listing fails.
matchListAbort(t, fsys, dir, yieldDir, includeDirs, include, exclude) ==
    LET rd == ReadDir(fsys, dir)
        t1 == Logged(t, "ReadDir", dir, rd.err)
        y  == yield(t1, dir, "nil")
    IN  IF rd.err /= "nil" THEN Return(yield(t1, dir, rd.err).t, FALSE)
        ELSE IF yieldDir /\ includeDirs /\ ~y.ok THEN Return(y.t, FALSE)
        ELSE matchEntries(IF yieldDir /\ includeDirs THEN y.t ELSE t1,
                          fsys, dir, includeDirs, include, exclude, rd.infos, 1)

\* matchStep, the general path: from fs.ReadDir on.
matchList(t, fsys, dir, yieldDir, includeDirs, include, exclude) ==
    LET rd == ReadDir(fsys, dir)
        t1 == Logged(t, "ReadDir", dir, rd.err)
        y  == yield(t1, dir, "nil")
    IN  IF rd.err /= "nil" THEN yield(t1, dir, rd.err)
        ELSE IF yieldDir /\ includeDirs /\ ~y.ok THEN Return(y.t, FALSE)
        ELSE matchEntries(IF yieldDir /\ includeDirs THEN y.t ELSE t1,
                          fsys, dir, includeDirs, include, exclude, rd.infos, 1)

\* func matchStep
matchStep(t, fsys, dir, yieldDir, includeDirs, include, exclude) ==
    LET lit == literal(include)
    IN  IF always(include)
        THEN IF Len(exclude) = 0
             THEN allStep(t, fsys, dir, yieldDir, includeDirs)
             ELSE matchList(t, fsys, dir, yieldDir, includeDirs,
                            << <<StarStar>> >>, exclude)
        ELSE IF lit.ok
        THEN matchLiteral(t, fsys, dir, includeDirs, lit.name, lit.next, exclude)
        ELSE matchList(t, fsys, dir, yieldDir, includeDirs, include, exclude)

\* Glob.Match run to its end against a consumer that stops at yield stopAt:
\* (*matchGlob).Match, (allGlob).Match, (noneGlob).Match.
Match(g, fsys, dir, includeDirs, stopAt) ==
    LET t == NewTraversal(stopAt)
    IN  IF g.kind = "all" THEN allStep(t, fsys, dir, FALSE, includeDirs).t
        ELSE IF g.kind = "none" THEN t
        ELSE matchStep(t, fsys, dir, FALSE, includeDirs, g.include, g.exclude).t

\* ------------------------------------------------- the slices in memory
\* The walker and MatchPath once more, with the []pattern and pattern slices
\* laid out in memory as Go lays them out.  The heap is a sequence of arrays,
\* an array the sequence of its cells; an array's index in the heap is its
\* address.  A pattern is a slice [arr, off, len] of an array of terms, p[1:]
\* being the same array one cell further; a list of patterns is a slice
\* [arr, len] of an array of pattern slices, its capacity the array's length.
NilSlice == [arr |-> 0, len |-> 0]
NoPattern == [arr |-> 0, off |-> 0, len |-> 0]

\* cap(s)
capacity(h, s) == IF s.arr = 0 THEN 0 ELSE Len(h[s.arr])

\* The pattern, and the list of patterns, a slice denotes in heap h.
patternAt(h, p) == [k \in 1..p.len |-> h[p.arr][p.off + k]]
patternsAt(h, s) == [k \in 1..s.len |-> patternAt(h, h[s.arr][k])]

\* append(s, x) on a []pattern: x is written into the cell after s's last when
\* the array has one, else into a new array of twice the capacity (of one
\* cell for a nil slice) that takes s's elements.
appendSlice(h, s, x) ==
    IF s.len < capacity(h, s)
    THEN [heap |-> [h EXCEPT ![s.arr][s.len + 1] = x],
          slice |-> [s EXCEPT !.len = @ + 1]]
    ELSE [heap |-> Append(h, [k \in 1..(IF capacity(h, s) = 0 THEN 1
                                        ELSE 2 * capacity(h, s)) |->
                                 IF k <= s.len THEN h[s.arr][k]
                                 ELSE IF k = s.len + 1 THEN x ELSE NoPattern]),
          slice |-> [arr |-> Len(h) + 1, len |-> s.len + 1]]

\* func newPattern, in memory: steps is a new array, the pattern and its
\* advancement steps[1:] are slices of it.
newPatternMem(h, p, patterns) ==
    IF ErrBadPattern(p) THEN [err |-> TRUE, heap |-> h, patterns |-> patterns]
    ELSE LET split == SplitNonEmpty(p)
             steps == IF Len(split) = 0 THEN <<Empty>> ELSE split
             h1    == Append(h, steps)
             whole == [arr |-> Len(h1), off |-> 0, len |-> Len(steps)]
             one   == appendSlice(h1, patterns, whole)
             two   == appendSlice(one.heap, one.slice,
                                  [arr |-> Len(h1), off |-> 1, len |-> Len(steps) - 1])
         IN  IF steps[1] = StarStar /\ Len(steps) /= 1
             THEN [err |-> FALSE, heap |-> two.heap, patterns |-> two.slice]
             ELSE [err |-> FALSE, heap |-> one.heap, patterns |-> one.slice]

RECURSIVE newPatternsFromMem(_, _, _, _, _)
newPatternsFromMem(h, ps, i, patterns, errs) ==
    IF i > Len(ps) THEN [heap |-> h, patterns |-> patterns, errs |-> errs]
    ELSE LET r == newPatternMem(h, ps[i], patterns)
         IN  newPatternsFromMem(r.heap, ps, i + 1, r.patterns,
                                IF r.err THEN Append(errs, "ErrBadPattern") ELSE errs)

\* func newPatterns, in memory.
newPatternsMem(h, ps) == newPatternsFromMem(h, ps, 1, NilSlice, <<>>)

\* func New, in memory: the heap it leaves and the matchGlob's two slices.
NewMem(incs, excs) ==
    IF (Len(excs) = 0 /\ ContainsStarStar(incs))
       \/ Len(incs) = 0 \/ ContainsStarStar(excs)
    THEN [heap |-> <<>>, include |-> NilSlice, exclude |-> NilSlice]
    ELSE LET inc == newPatternsMem(<<>>, incs)
             exc == newPatternsMem(inc.heap, excs)
         IN  [heap |-> exc.heap, include |-> inc.patterns, exclude |-> exc.patterns]

\* p[1:]
rest(p) == [arr |-> p.arr, off |-> p.off + 1, len |-> p.len - 1]

\* What matchDir returns with *patterns as the append a left it.
matched(ok, a) == [ok |-> ok, heap |-> a.heap, patterns |-> a.slice]

\* matchDir from "if len(rest) == 0" on, kept being *patterns so far.
matchRestMem(kept, p) ==
    IF p.len = 1 THEN matched(TRUE, kept)
    ELSE matched(FALSE, appendSlice(kept.heap, kept.slice, rest(p)))

\* func (p pattern) matchDir, in memory: the appends go to *patterns.
matchDirMem(h, p, name, patterns) ==
    IF h[p.arr][p.off + 1] = StarStar
    THEN matchRestMem(appendSlice(h, patterns, p), p)
    ELSE IF ~match(h[p.arr][p.off + 1], name)
    THEN [ok |-> FALSE, heap |-> h, patterns |-> patterns]
    ELSE matchRestMem([heap |-> h, slice |-> patterns], p)

\* The loop "for _, p := range ps { p.matchDir(name, &next) }", in memory: ps[i]
\* is read from the array when the loop comes to it.
RECURSIVE advanceMem(_, _, _, _, _, _, _)
RECURSIVE advancedMem(_, _, _, _, _, _)
advanceMem(h, ps, i, name, next, any, stop) ==
    IF i > ps.len THEN [ok |-> any, heap |-> h, patterns |-> next]
    ELSE advancedMem(matchDirMem(h, h[ps.arr][i], name, next), ps, i, name, any, stop)

\* The loop after ps[i].matchDir returned r.
advancedMem(r, ps, i, name, any, stop) ==
    IF r.ok /\ stop THEN r
    ELSE advanceMem(r.heap, ps, i + 1, name, r.patterns, any \/ r.ok, stop)

\* func literal, in memory: next is a new array of one cell.
literalMem(h, patterns) ==
    IF patterns.len /= 1
    THEN [name |-> <<>>, next |-> NilSlice, ok |-> FALSE, heap |-> h]
    ELSE LET p == h[patterns.arr][1]
         IN  IF hasMeta(h[p.arr][p.off + 1])
             THEN [name |-> <<>>, next |-> NilSlice, ok |-> FALSE, heap |-> h]
             ELSE IF p.len > 1
             THEN [name |-> h[p.arr][p.off + 1],
                   next |-> [arr |-> Len(h) + 1, len |-> 1],
                   ok |-> TRUE, heap |-> Append(h, <<rest(p)>>)]
             ELSE [name |-> h[p.arr][p.off + 1], next |-> NilSlice,
                   ok |-> TRUE, heap |-> h]

\* MatchPath's loop building the next include list in the array of the
\* current one (nextInclude := include[:0]).
RECURSIVE matchPathFromMemInPlace(_, _, _, _, _)
matchPathFromMemInPlace(h, names, i, include, exclude) ==
    LET exc == advanceMem(h, exclude, 1, names[i], NilSlice, FALSE, TRUE)
        inc == advanceMem(exc.heap, include, 1, names[i],
                          [include EXCEPT !.len = 0], FALSE, i = Len(names))
    IN  IF exc.ok THEN [ret |-> FALSE, heap |-> exc.heap]
        ELSE IF i = Len(names) THEN [ret |-> inc.ok, heap |-> inc.heap]
        ELSE IF inc.patterns.len = 0 THEN [ret |-> FALSE, heap |-> inc.heap]
        ELSE matchPathFromMemInPlace(inc.heap, names, i + 1, inc.patterns, exc.patterns)

\* The body of matchGlob.MatchPath from names[i] on, in memory: nextInclude and
\* nextExclude are nil at each name.
RECURSIVE matchPathFromMem(_, _, _, _, _)
matchPathFromMem(h, names, i, include, exclude) ==
    LET exc == advanceMem(h, exclude, 1, names[i], NilSlice, FALSE, TRUE)
        inc == advanceMem(exc.heap, include, 1, names[i], NilSlice, FALSE,
                          i = Len(names))
    IN  IF exc.ok THEN [ret |-> FALSE, heap |-> exc.heap]
        ELSE IF i = Len(names) THEN [ret |-> inc.ok, heap |-> inc.heap]
        ELSE IF inc.patterns.len = 0 THEN [ret |-> FALSE, heap |-> inc.heap]
        ELSE matchPathFromMem(inc.heap, names, i + 1, inc.patterns, exc.patterns)

\* MatchPath in memory: the answer and the heap the call leaves.  g holds the
\* Glob's kind and the matchGlob's two slices.
MatchPathMem(h, g, p) ==
    IF g.kind = "all" THEN [ret |-> TRUE, heap |-> h]
    ELSE IF g.kind = "none" THEN [ret |-> FALSE, heap |-> h]
    ELSE LET names == SplitNonEmpty(p)
         IN  IF Len(names) = 0 THEN [ret |-> FALSE, heap |-> h]
             ELSE matchPathFromMem(h, names, 1, g.include, g.exclude)

RECURSIVE matchStepMem(_, _, _, _, _, _, _)
RECURSIVE matchEntriesMem(_, _, _, _, _, _, _, _, _, _)
RECURSIVE allStepMem(_, _, _, _, _)
RECURSIVE allEntriesMem(_, _, _, _, _, _)

\* The consumers of a traversal: the loop body does nothing with the Glob, or
\* calls MatchPath(path) on it, or runs a second traversal with the first
\* one's arguments to its end.
NoConsumer == [op |-> "none", path |-> <<>>]

\* A traversal's record in memory: the record of the calls, the heap, the
\* Glob's slices, Match's arguments, the consumer, the answers the consumer
\* got from the Glob, and whether each call of the consumer left every array
\* that was there before it as it was.
NewTraversalMem(h, g, fsys, dir, includeDirs, stopAt, consumer) ==
    [log |-> <<>>, yields |-> 0, stopAt |-> stopAt, heap |-> h, glob |-> g,
     fsys |-> fsys, dir |-> dir, includeDirs |-> includeDirs,
     consumer |-> consumer, answers |-> <<>>, clean |-> TRUE]

\* The consumer's call on the Glob returned: the heap it left and its answer
\* go to the traversal's record y.
answered(y, heap, answer) ==
    [y EXCEPT !.t.heap = heap,
              !.t.answers = Append(@, answer),
              !.t.clean = @ /\ SubSeq(heap, 1, Len(y.t.heap)) = y.t.heap]

pathAnswered(y, mp) == answered(y, mp.heap, mp.ret)
walkAnswered(y, tr) == answered(y, tr.heap, tr.log)

\* yield(path, err) in memory: the consumer's loop body runs, and what it
\* calls on the Glob runs in the traversal's heap, between two steps of the
\* traversal.
yieldMem(t, p, err) ==
    IF t.consumer.op = "MatchPath"
    THEN pathAnswered(yield(t, p, err),
                      MatchPathMem(t.heap, t.glob, t.consumer.path))
    ELSE IF t.consumer.op = "Match"
    THEN walkAnswered(yield(t, p, err),
                      matchStepMem(NewTraversalMem(t.heap, t.glob, t.fsys, t.dir,
                                                   t.includeDirs, 0, NoConsumer),
                                   t.fsys, t.dir, FALSE, t.includeDirs,
                                   t.glob.include, t.glob.exclude).t)
    ELSE yield(t, p, err)

\* allStep's loop after the step r for infos[i].
allNextMem(r, fsys, dir, includeDirs, infos, i) ==
    IF ~r.ok THEN Return(r.t, FALSE)
    ELSE allEntriesMem(r.t, fsys, dir, includeDirs, infos, i + 1)

\* The loop of allStep over infos[i..], yielding in memory.
allEntriesMem(t, fsys, dir, includeDirs, infos, i) ==
    IF i > Len(infos) THEN Return(t, TRUE)
    ELSE IF infos[i].isDir
    THEN allNextMem(allStepMem(t, fsys, PathJoin(dir, infos[i].name), TRUE, includeDirs),
                    fsys, dir, includeDirs, infos, i)
    ELSE allNextMem(yieldMem(t, PathJoin(dir, infos[i].name), "nil"),
                    fsys, dir, includeDirs, infos, i)

\* allStep after "yieldDir && includeDirs && !yield(dir, nil)", y being what
\* yield returned.
allEnteredMem(y, fsys, dir, includeDirs, infos) ==
    IF ~y.ok THEN Return(y.t, FALSE)
    ELSE allEntriesMem(y.t, fsys, dir, includeDirs, infos, 1)

\* allStep after fs.ReadDir returned rd, t1 holding the call.
allListedMem(t1, rd, fsys, dir, yieldDir, includeDirs) ==
    IF rd.err /= "nil" THEN yieldMem(t1, dir, rd.err)
    ELSE IF yieldDir /\ includeDirs
    THEN allEnteredMem(yieldMem(t1, dir, "nil"), fsys, dir, includeDirs, rd.infos)
    ELSE allEntriesMem(t1, fsys, dir, includeDirs, rd.infos, 1)

\* func allStep, yielding in memory.
allStepMem(t, fsys, dir, yieldDir, includeDirs) ==
    allListedMem(Logged(t, "ReadDir", dir, ReadDir(fsys, dir).err),
                 ReadDir(fsys, dir), fsys, dir, yieldDir, includeDirs)

\* The fast-path's "if info.IsDir()" and what follows it, exc being the
\* excludes advanced into nextExclude.
literalDirMem(t, exc, fsys, p, includeDirs, nextInclude) ==
    IF shouldDescend(patternsAt(exc.heap, nextInclude),
                     patternsAt(exc.heap, exc.patterns))
    THEN matchStepMem([t EXCEPT !.heap = exc.heap], fsys, p, includeDirs,
                      includeDirs, nextInclude, exc.patterns)
    ELSE IF ~includeDirs THEN Return([t EXCEPT !.heap = exc.heap], TRUE)
    ELSE yieldMem([t EXCEPT !.heap = exc.heap], p, "nil")

\* The fast-path after fs.Stat returned s, t1 holding the call: the appends
\* go to the nextExclude of this call, nil until then.
literalStatMem(t1, s, fsys, dir, includeDirs, name, nextInclude, exclude) ==
    IF s.err = "ErrNotExist" THEN Return(t1, TRUE)
    ELSE IF s.err /= "nil" THEN yieldMem(t1, dir, s.err)
    ELSE IF ~s.isDir THEN yieldMem(t1, PathJoin(dir, name), "nil")
    ELSE literalDirMem(t1, advanceMem(t1.heap, exclude, 1, name, NilSlice, FALSE, FALSE),
                       fsys, PathJoin(dir, name), includeDirs, nextInclude)

\* The literal fast-path in memory: the traversal's heap is t.heap.
matchLiteralMem(t, fsys, dir, includeDirs, name, nextInclude, exclude) ==
    IF anyMatchFile(patternsAt(t.heap, exclude), name) THEN Return(t, TRUE)
    ELSE literalStatMem(Logged(t, "Stat", PathJoin(dir, name),
                               Stat(fsys, PathJoin(dir, name)).err),
                        Stat(fsys, PathJoin(dir, name)),
                        fsys, dir, includeDirs, name, nextInclude, exclude)

\* The iteration for the file infos[i].
fileEntryMem(t, dir, name, include, exclude) ==
    IF /\ ~anyMatchFile(patternsAt(t.heap, exclude), name)
       /\ anyMatchFile(patternsAt(t.heap, include), name)
    THEN yieldMem(t, PathJoin(dir, name), "nil")
    ELSE Return(t, TRUE)

\* The iteration for the directory infos[i] that no exclude matched, after
\* the loop over include: inc holds the heap, nextInclude and whether a
\* pattern matched, ne is nextExclude.
dirEntryMem(t, inc, ne, fsys, p, includeDirs) ==
    IF shouldDescend(patternsAt(inc.heap, inc.patterns), patternsAt(inc.heap, ne))
    THEN matchStepMem([t EXCEPT !.heap = inc.heap], fsys, p,
                      inc.ok /\ includeDirs, includeDirs, inc.patterns, ne)
    ELSE IF inc.ok /\ includeDirs THEN yieldMem([t EXCEPT !.heap = inc.heap], p, "nil")
    ELSE Return([t EXCEPT !.heap = inc.heap], TRUE)

\* The loop after the iteration r for infos[i], which left the slices nI and
\* nE in nextInclude and nextExclude.
matchNextMem(r, fsys, dir, includeDirs, include, exclude, infos, i, nI, nE) ==
    IF ~r.ok THEN Return(r.t, FALSE)
    ELSE matchEntriesMem(r.t, fsys, dir, includeDirs, include, exclude,
                         infos, i + 1, nI, nE)

\* The iteration for the directory infos[i] after the loop over exclude (exc)
\* and, if that did not continue the outer loop, the one over include (inc).
matchDirEntryMem(t, exc, inc, fsys, dir, includeDirs, include, exclude, infos, i) ==
    IF exc.ok
    THEN matchNextMem(Return([t EXCEPT !.heap = exc.heap], TRUE), fsys, dir,
                      includeDirs, include, exclude, infos, i,
                      inc.patterns, exc.patterns)
    ELSE matchNextMem(dirEntryMem(t, inc, exc.patterns, fsys,
                                  PathJoin(dir, infos[i].name), includeDirs),
                      fsys, dir, includeDirs, include, exclude, infos, i,
                      inc.patterns, exc.patterns)

\* The iteration for the directory infos[i] after the loop over exclude, ni0
\* being nextInclude[:0].
matchExcludedMem(t, exc, ni0, fsys, dir, includeDirs, include, exclude, infos, i) ==
    matchDirEntryMem(t, exc,
                     IF exc.ok THEN [ok |-> FALSE, heap |-> exc.heap, patterns |-> ni0]
                     ELSE advanceMem(exc.heap, include, 1, infos[i].name, ni0,
                                     FALSE, FALSE),
                     fsys, dir, includeDirs, include, exclude, infos, i)

\* The loop over infos[i..] in memory: nextInclude and nextExclude are the
\* slices the iteration before left, cut to no element and written over
\* ("nextInclude, nextExclude = nextInclude[:0], nextExclude[:0]").
matchEntriesMem(t, fsys, dir, includeDirs, include, exclude, infos, i, nextInclude, nextExclude) ==
    IF i > Len(infos) THEN Return(t, TRUE)
    ELSE IF ~infos[i].isDir
    THEN matchNextMem(fileEntryMem(t, dir, infos[i].name, include, exclude),
                      fsys, dir, includeDirs, include, exclude, infos, i,
                      [nextInclude EXCEPT !.len = 0], [nextExclude EXCEPT !.len = 0])
    ELSE matchExcludedMem(t, advanceMem(t.heap, exclude, 1, infos[i].name,
                                        [nextExclude EXCEPT !.len = 0], FALSE, TRUE),
                          [nextInclude EXCEPT !.len = 0],
                          fsys, dir, includeDirs, include, exclude, infos, i)

\* The general path after "yieldDir && includeDirs && !yield(dir, nil)", y
\* being what yield returned: nextInclude and nextExclude start nil.
matchEnteredMem(y, fsys, dir, includeDirs, include, exclude, infos) ==
    IF ~y.ok THEN Return(y.t, FALSE)
    ELSE matchEntriesMem(y.t, fsys, dir, includeDirs, include, exclude,
                         infos, 1, NilSlice, NilSlice)

\* The general path after fs.ReadDir returned rd, t1 holding the call.
matchListedMem(t1, rd, fsys, dir, yieldDir, includeDirs, include, exclude) ==
    IF rd.err /= "nil" THEN yieldMem(t1, dir, rd.err)
    ELSE IF yieldDir /\ includeDirs
    THEN matchEnteredMem(yieldMem(t1, dir, "nil"), fsys, dir, includeDirs,
                         include, exclude, rd.infos)
    ELSE matchEntriesMem(t1, fsys, dir, includeDirs, include, exclude,
                         rd.infos, 1, NilSlice, NilSlice)

\* The general path in memory.
matchListMem(t, fsys, dir, yieldDir, includeDirs, include, exclude) ==
    matchListedMem(Logged(t, "ReadDir", dir, ReadDir(fsys, dir).err),
                   ReadDir(fsys, dir), fsys, dir, yieldDir, includeDirs,
                   include, exclude)

\* func matchStep in memory: "include = []pattern{{"**"}}" is a new list of one
\* new pattern, and literal is only called when always(include) is false.
matchStepMem(t, fsys, dir, yieldDir, includeDirs, include, exclude) ==
    LET h1  == Append(t.heap, <<StarStar>>)
        h2  == Append(h1, << [arr |-> Len(h1), off |-> 0, len |-> 1] >>)
        lit == literalMem(t.heap, include)
    IN  IF always(patternsAt(t.heap, include))
        THEN IF exclude.len = 0
             THEN allStepMem(t, fsys, dir, yieldDir, includeDirs)
             ELSE matchListMem([t EXCEPT !.heap = h2], fsys, dir, yieldDir,
                               includeDirs, [arr |-> Len(h2), len |-> 1], exclude)
        ELSE IF lit.ok
        THEN matchLiteralMem([t EXCEPT !.heap = lit.heap], fsys, dir, includeDirs,
                             lit.name, lit.next, exclude)
        ELSE matchListMem(t, fsys, dir, yieldDir, includeDirs, include, exclude)

\* Glob.Match in memory, run to its end from heap h against the consumer: the
\* traversal's record with the heap the call leaves.  The consumer calls the
\* matchGlob only: allGlob and noneGlob hold no slice.
MatchMem(h, g, fsys, dir, includeDirs, stopAt, consumer) ==
    LET t == NewTraversalMem(h, g, fsys, dir, includeDirs, stopAt, consumer)
    IN  IF g.kind = "all" THEN allStep(t, fsys, dir, FALSE, includeDirs).t
        ELSE IF g.kind = "none" THEN t
        ELSE matchStepMem(t, fsys, dir, FALSE, includeDirs, g.include, g.exclude).t

\* ----------------------------------------------------------------- inputs
\* The terms pattern strings are written with.
TermSet == {A, Star, StarStar}

\* The terms New is also handed where malformed strings are wanted: "[" opens a
\* character class that is never closed.
BadTermSet == TermSet \cup {Bad}

RECURSIVE TermSeqs(_, _)
\* The sequences of n terms of T.
TermSeqs(T, n) ==
    IF n = 0 THEN {<<>>}
    ELSE {<<x>> \o ts : x \in T, ts \in TermSeqs(T, n - 1)}

\* The pattern strings of n terms of T.
PatternStrings(T, n) == {JoinSlash(ts) : ts \in TermSeqs(T, n)}

RECURSIVE StringLists(_, _)
\* The lists of pattern strings over T holding at most m terms together.
StringLists(T, m) ==
    {<<>>} \cup UNION {{<<s>> \o l : s \in PatternStrings(T, k),
                                     l \in StringLists(T, m - k)} : k \in 1..m}

RECURSIVE PathsOfLen(_)
PathsOfLen(n) ==
    IF n = 0 THEN {<<>>}
    ELSE {Append(p, NameOrder[k]) : p \in PathsOfLen(n - 1), k \in 1..Len(NameOrder)}

\* The paths of one to MaxNodes names.
Paths == UNION {PathsOfLen(n) : n \in 1..MaxNodes}

\* The entries tree t lacks whose parent directory it has.
FreeIn(t) ==
    {Append(d, NameOrder[k]) : d \in t.dirs, k \in 1..Len(NameOrder)}
    \ (t.dirs \cup t.files)

RECURSIVE TreesOfSize(_)
\* The error-free trees of at most n entries below the root directory.
TreesOfSize(n) ==
    IF n = 0 THEN {[dirs |-> {<<>>}, files |-> {}, failRead |-> {}, failStat |-> {}]}
    ELSE LET prev == TreesOfSize(n - 1)
             grown(t) == UNION {{[t EXCEPT !.dirs = @ \cup {q}],
                                 [t EXCEPT !.files = @ \cup {q}]} : q \in FreeIn(t)}
         IN  prev \cup UNION {grown(t) : t \in prev}

Trees == TreesOfSize(MaxNodes)

\* The strings MatchPath is asked about: every path of the trees, written with
\* single slashes, and some written with empty components.
PathStrings ==
    {JoinSlash(p) : p \in Paths}
    \cup {<<>>, <<"/">>, <<"/">> \o A, A \o <<"/">>, A \o <<"/", "/">> \o B}

\* The directories Match is started in.
StartDirs == {<<>>, <<A>>}

\* ------------------------------------------------------------------ state
VARIABLES
    includes,   \* New's first argument
    excludes,   \* New's second argument
    glob,       \* the Glob New returned (NilGlob: none yet, or an error)
    err,        \* the error New returned (<<>> is nil)
    fsys,       \* the tree the last Match walked
    call,       \* the last call and its arguments
    out,        \* the last Match: its calls to ReadDir, Stat and yield, in order
    ret,        \* the last MatchPath: its answer
    mem         \* the memory of a Glob whose slices are followed (NoMem: none)

vars == <<includes, excludes, glob, err, fsys, call, out, ret, mem>>

NoCall == [op |-> "none", dir |-> <<>>, includeDirs |-> FALSE, stopAt |-> 0, path |-> <<>>]
NoTree == [dirs |-> {<<>>}, files |-> {}, failRead |-> {}, failStat |-> {}]

\* The memory of a Glob: the heap now, the heap as New left it (built), the
\* heap as it was before the last call (before), the matchGlob's include and
\* exclude slices, the number of calls made on the Glob (the consumers' calls
\* counted), and of the last Match the consumer if it came to call the Glob,
\* the answers it got and whether its calls wrote to no array that was there
\* before them.
NoMem == [heap |-> <<>>, built |-> <<>>, before |-> <<>>,
          include |-> NilSlice, exclude |-> NilSlice, calls |-> 0,
          consumer |-> NoConsumer, answers |-> <<>>, clean |-> TRUE]

Init ==
    /\ includes = <<>>
    /\ excludes = <<>>
    /\ glob = NilGlob
    /\ err = <<>>
    /\ fsys = NoTree
    /\ call = NoCall
    /\ out = <<>>
    /\ ret = FALSE
    /\ mem = NoMem

\* glob, err := New(inc, exc)
DoNew(inc, exc) ==
    /\ call.op = "none"
    /\ includes' = inc
    /\ excludes' = exc
    /\ glob' = New(inc, exc).glob
    /\ err' = New(inc, exc).err
    /\ call' = [NoCall EXCEPT !.op = "New"]
    /\ UNCHANGED <<fsys, out, ret, mem>>

\* for path, err := range glob.Match(tree, dir, includeDirs), the consumer
\* returning false at yield stopAt (0: consuming to the end)
DoMatch(tree, dir, includeDirs, stopAt) ==
    /\ call.op = "New"
    /\ glob.kind /= "nil"
    /\ fsys' = tree
    /\ call' = [NoCall EXCEPT !.op = "Match", !.dir = dir,
                              !.includeDirs = includeDirs, !.stopAt = stopAt]
    /\ out' = Match(glob, tree, dir, includeDirs, stopAt).log
    /\ UNCHANGED <<includes, excludes, glob, err, ret, mem>>

\* glob.MatchPath(p)
DoMatchPath(p) ==
    /\ call.op = "New"
    /\ glob.kind /= "nil"
    /\ call' = [NoCall EXCEPT !.op = "MatchPath", !.path = p]
    /\ ret' = MatchPath(glob, p)
    /\ UNCHANGED <<includes, excludes, glob, err, fsys, out, mem>>

\* The include and exclude lists New is called with.
IncludeLists == StringLists(TermSet, MaxIncTerms)
ExcludeLists == StringLists(TermSet, MaxExcTerms)

Constructed == call.op = "New" /\ glob.kind /= "nil"

Next ==
    \/ /\ call.op = "none"
       /\ \E inc \in IncludeLists, exc \in ExcludeLists : DoNew(inc, exc)
    \/ /\ Constructed
       /\ \E tree \in Trees, dir \in StartDirs, includeDirs \in BOOLEAN :
              DoMatch(tree, dir, includeDirs, 0)
    \/ /\ Constructed
       /\ \E p \in PathStrings : DoMatchPath(p)

Spec == Init /\ [][Next]_vars

\* Construction alone, malformed pattern strings among the arguments.
NewIncludeLists == StringLists(BadTermSet, MaxIncTerms)
NewExcludeLists == StringLists(BadTermSet, MaxExcTerms)

NextNew ==
    /\ call.op = "none"
    /\ \E inc \in NewIncludeLists, exc \in NewExcludeLists : DoNew(inc, exc)

SpecNew == Init /\ [][NextNew]_vars

\* Traversals of trees in which the listing of one directory fails.
FailingTrees == UNION {{[t EXCEPT !.failRead = {d}] : d \in t.dirs} : t \in Trees}

NextFail ==
    \/ /\ call.op = "none"
       /\ \E inc \in IncludeLists, exc \in ExcludeLists : DoNew(inc, exc)
    \/ /\ Constructed
       /\ \E tree \in FailingTrees, includeDirs \in BOOLEAN :
              DoMatch(tree, <<>>, includeDirs, 0)

SpecFail == Init /\ [][NextFail]_vars

\* Traversals of trees in which fs.Stat of one entry fails with an error that
\* is not fs.ErrNotExist.
ProbeFailingTrees ==
    UNION {{[t EXCEPT !.failStat = {q}] : q \in (t.dirs \cup t.files) \ {<<>>}}
              : t \in Trees}

NextProbe ==
    \/ /\ call.op = "none"
       /\ \E inc \in IncludeLists, exc \in ExcludeLists : DoNew(inc, exc)
    \/ /\ Constructed
       /\ \E tree \in ProbeFailingTrees, includeDirs \in BOOLEAN :
              DoMatch(tree, <<>>, includeDirs, 0)

SpecProbe == Init /\ [][NextProbe]_vars

\* Most yields a consumer takes before its callback returns false.
MaxStop == 2

\* The trees a cancelled traversal walks: error-free, or with one failing
\* listing, or with one failing probe.
CancelTrees == TreesOfSize(MaxNodes - 1) \cup FailingTrees \cup ProbeFailingTrees

\* Traversals whose consumer returns false at one of its first yields.
NextCancel ==
    \/ /\ call.op = "none"
       /\ \E inc \in IncludeLists, exc \in ExcludeLists : DoNew(inc, exc)
    \/ /\ Constructed
       /\ \E tree \in CancelTrees, includeDirs \in BOOLEAN, stopAt \in 1..MaxStop :
              DoMatch(tree, <<>>, includeDirs, stopAt)

SpecCancel == Init /\ [][NextCancel]_vars

\* glob, err := New(inc, exc), the slices it builds followed in memory
DoNewMem(inc, exc) ==
    /\ call.op = "none"
    /\ includes' = inc
    /\ excludes' = exc
    /\ glob' = New(inc, exc).glob
    /\ err' = New(inc, exc).err
    /\ call' = [NoCall EXCEPT !.op = "New"]
    /\ \E m \in {NewMem(inc, exc)} :
           mem' = [NoMem EXCEPT !.heap = m.heap, !.built = m.heap,
                                !.before = m.heap, !.include = m.include,
                                !.exclude = m.exclude]
    /\ UNCHANGED <<fsys, out, ret>>

\* The Glob as the calls find it in memory.
GlobMem == [kind |-> glob.kind, include |-> mem.include, exclude |-> mem.exclude]

\* The Glob takes one more call while fewer calls than this were made on it.
MaxCalls == 2

\* One more call of Match on the Glob, consumed to its end by the consumer,
\* in the memory the calls before it left.
DoMatchMem(tree, dir, includeDirs, consumer) ==
    /\ fsys' = tree
    /\ call' = [NoCall EXCEPT !.op = "Match", !.dir = dir,
                              !.includeDirs = includeDirs]
    /\ \E t \in {MatchMem(mem.heap, GlobMem, tree, dir, includeDirs, 0, consumer)} :
           /\ out' = t.log
           /\ mem' = [mem EXCEPT !.before = mem.heap, !.heap = t.heap,
                                 !.calls = @ + 1 + Len(t.answers),
                                 !.consumer = IF t.answers = <<>> THEN NoConsumer
                                              ELSE consumer,
                                 !.answers = t.answers, !.clean = t.clean]
    /\ ret' = FALSE
    /\ UNCHANGED <<includes, excludes, glob, err>>

\* One more call of MatchPath on the Glob, in the memory the calls before it
\* left.
DoMatchPathMem(p) ==
    /\ call' = [NoCall EXCEPT !.op = "MatchPath", !.path = p]
    /\ \E r \in {MatchPathMem(mem.heap, GlobMem, p)} :
           /\ ret' = r.ret
           /\ mem' = [mem EXCEPT !.before = mem.heap, !.heap = r.heap,
                                 !.calls = @ + 1, !.consumer = NoConsumer,
                                 !.answers = <<>>, !.clean = TRUE]
    /\ fsys' = NoTree
    /\ out' = <<>>
    /\ UNCHANGED <<includes, excludes, glob, err>>

\* The arguments of the calls that share a Glob: the excludes are no string or
\* one string of the terms a and "**".
ReuseExcludeLists ==
    {<<>>} \cup UNION {{<<x>> : x \in PatternStrings({A, StarStar}, k)}
                          : k \in 1..MaxExcTerms}
ReuseTrees == TreesOfSize(MaxNodes - 1)
ReusePaths == {JoinSlash(q) : q \in PathsOfLen(1) \cup PathsOfLen(2)}
\* The consumers that call the Glob from the loop body.
CallingConsumers ==
    {[op |-> "Match", path |-> <<>>]}
    \cup {[op |-> "MatchPath", path |-> JoinSlash(q)] : q \in PathsOfLen(2)}

\* The Glob is built and takes one more call.
Reusable == call.op /= "none" /\ glob.kind /= "nil" /\ mem.calls < MaxCalls

\* Calls of Match and MatchPath made one after another on one Glob, the
\* consumer of the first traversal calling the Glob itself at every item.
NextReuse ==
    \/ /\ call.op = "none"
       /\ \E inc \in IncludeLists, exc \in ReuseExcludeLists : DoNewMem(inc, exc)
    \/ /\ Reusable
       /\ \E tree \in ReuseTrees, includeDirs \in BOOLEAN :
              DoMatchMem(tree, <<>>, includeDirs, NoConsumer)
    \/ /\ Reusable
       /\ mem.calls = 0
       /\ \E tree \in ReuseTrees, includeDirs \in BOOLEAN,
             consumer \in CallingConsumers :
              DoMatchMem(tree, <<>>, includeDirs, consumer)
    \/ /\ Reusable
       /\ \E p \in ReusePaths : DoMatchPathMem(p)

SpecReuse == Init /\ [][NextReuse]_vars

\* ------------------------------------------------------- reading a run
IsPrefix(d, p) == Len(d) <= Len(p) /\ SubSeq(p, 1, Len(d)) = d
\* p lies strictly below directory d.
Below(p, d) == Len(d) < Len(p) /\ IsPrefix(d, p)
\* p without the start directory of the last Match.
Rel(p) == SubSeq(p, Len(call.dir) + 1, Len(p))

YieldsAt(log) == {i \in 1..Len(log) : log[i].op = "yield"}
\* The paths emitted with a nil error.
EmittedIn(log) == {log[i].path : i \in {j \in YieldsAt(log) : log[j].err = "nil"}}
Emitted == EmittedIn(out)
\* The directories ReadDir was called on, the paths Stat was called on.
Listed == {out[i].path : i \in {j \in 1..Len(out) : out[j].op = "ReadDir"}}
Probed == {out[i].path : i \in {j \in 1..Len(out) : out[j].op = "Stat"}}

\* The last call was a Match consumed to its end on an error-free tree.
FullMatchRun ==
    /\ call.op = "Match"
    /\ call.stopAt = 0
    /\ fsys.failRead = {}
    /\ fsys.failStat = {}

RECURSIVE ActiveAfter(_, _, _)
\* The pattern set active below the directory names[1..], starting from ps at
\* names[i]: each name advances the set as matchDir does.
ActiveAfter(ps, names, i) ==
    IF i > Len(names) THEN ps
    ELSE ActiveAfter(advance(ps, names[i], FALSE).patterns, names, i + 1)

\* The include and exclude sets active in the directory rel (relative to the
\* start directory) of a matchGlob.
IncAt(rel) == ActiveAfter(glob.include, rel, 1)
ExcAt(rel) == ActiveAfter(glob.exclude, rel, 1)
Parent(p) == SubSeq(p, 1, Len(p) - 1)
Last(p) == p[Len(p)]

\* ----------------------------------------------------------------- claims
\* The terms a caller means by pattern string s.
TermsOf(s) == IF SplitNonEmpty(s) = <<>> THEN <<Empty>> ELSE SplitNonEmpty(s)

RECURSIVE FullMatch(_, _)
\* Pattern terms ts fully match the names: each term but "**" matches exactly
\* one name, and "**" matches zero or more names.
FullMatch(ts, names) ==
    IF ts = <<>> THEN names = <<>>
    ELSE IF Head(ts) = StarStar
         THEN FullMatch(Tail(ts), names)
              \/ (names /= <<>> /\ FullMatch(ts, Tail(names)))
    ELSE names /= <<>> /\ match(Head(ts), Head(names))
                       /\ FullMatch(Tail(ts), Tail(names))

\* Some string of the list fully matches the names.
AnyFullMatch(list, names) ==
    \E i \in 1..Len(list) : FullMatch(TermsOf(list[i]), names)

\* C1: for a general-strategy Glob and a non-empty path p, MatchPath(p) is true
\* if and only if some include string fully matches p's names and no exclude
\* string fully matches p or a non-empty prefix of it.
C1_MatchPathIffFullMatch ==
    (call.op = "MatchPath" /\ glob.kind = "match"
        /\ SplitNonEmpty(call.path) /= <<>>)
    => LET names == SplitNonEmpty(call.path)
       IN  ret <=> (/\ AnyFullMatch(includes, names)
                    /\ \A k \in 1..Len(names) :
                           ~AnyFullMatch(excludes, SubSeq(names, 1, k)))

\* The terms ts without the k-th.
WithoutTerm(ts, k) == SubSeq(ts, 1, k - 1) \o SubSeq(ts, k + 1, Len(ts))

\* Pattern terms ts have a "**" term such that ts without it fully match names.
MatchesWithoutStarStar(ts, names) ==
    \E k \in 1..Len(ts) :
        ts[k] = StarStar /\ Len(ts) > 1 /\ FullMatch(WithoutTerm(ts, k), names)

\* The entries Match may emit from the tree: its files and, when directories
\* are asked for, its directories below the root.
Candidates ==
    fsys.files \cup (IF call.includeDirs THEN fsys.dirs \ {<<>>} ELSE {})

\* C2: "**" matches zero directory levels wherever it stands: a path that
\* matches pattern P with one "**" term removed is matched by P, by MatchPath
\* and by Match.
C2_StarStarMatchesZeroLevels ==
    (Len(includes) = 1 /\ excludes = <<>> /\ glob.kind = "match")
    => LET ts == TermsOf(includes[1])
       IN  /\ (call.op = "MatchPath"
                 /\ MatchesWithoutStarStar(ts, SplitNonEmpty(call.path))) => ret
           /\ (FullMatchRun /\ call.dir = <<>>)
                 => \A p \in Candidates :
                        MatchesWithoutStarStar(ts, p) => p \in Emitted

\* The paths from the root down to p.
PrefixesOf(p) == {SubSeq(p, 1, k) : k \in 0..Len(p)}

\* C3: Match and MatchPath accept the same language: on a tree that holds
\* exactly p and its ancestors, Match(tree, ".", true) emits p if and only if
\* MatchPath(p) is true.
C3_MatchAgreesWithMatchPath ==
    (FullMatchRun /\ call.dir = <<>> /\ call.includeDirs /\ glob.kind = "match")
    => \A p \in (fsys.dirs \cup fsys.files) \ {<<>>} :
           (fsys.dirs \cup fsys.files = PrefixesOf(p))
           => (MatchPath(glob, JoinSlash(p)) <=> p \in Emitted)

\* The include set of the Glob as the walker starts with it.
StartInclude == IF glob.kind = "all" THEN << <<StarStar>> >> ELSE glob.include

\* An exclude pattern active at its parent signals an immediate match on the
\* entry rel (a path relative to the start directory).
ExcludedHere(rel) ==
    advance(ActiveAfter(glob.exclude, Parent(rel), 1), Last(rel), FALSE).ok

\* An include pattern active at its parent signals an immediate match on rel.
IncludedHere(rel) ==
    advance(ActiveAfter(StartInclude, Parent(rel), 1), Last(rel), FALSE).ok

\* rel, or a directory above it, is pruned by an exclude.
Pruned(rel) == \E k \in 1..Len(rel) : ExcludedHere(SubSeq(rel, 1, k))

\* The directories below the start directory that match the Glob.
MatchingDirs ==
    {d \in fsys.dirs : Below(d, call.dir) /\ call.dir \in fsys.dirs
                       /\ ~Pruned(Rel(d)) /\ IncludedHere(Rel(d))}

\* The first yield of path p with a nil error (0: none).
FirstYield(p) ==
    LET at == {i \in YieldsAt(out) : out[i].path = p /\ out[i].err = "nil"}
    IN  IF at = {} THEN 0 ELSE CHOOSE i \in at : \A j \in at : i <= j

\* C4: with includeDirs, every matching directory is emitted with a nil error,
\* before every emitted entry below it.
C4_MatchingDirsEmittedFirst ==
    (FullMatchRun /\ call.includeDirs /\ glob.kind \in {"match", "all"})
    => \A d \in MatchingDirs :
           /\ d \in Emitted
           /\ \A i \in YieldsAt(out) :
                  (out[i].err = "nil" /\ Below(out[i].path, d)) => FirstYield(d) < i

\* The number of malformed strings in the list.
Malformed(list) == Cardinality({i \in 1..Len(list) : ErrBadPattern(list[i])})

\* New takes the match-all or the match-none strategy without compiling.
ShortCircuits ==
    \/ Len(excludes) = 0 /\ ContainsStarStar(includes)
    \/ Len(includes) = 0
    \/ ContainsStarStar(excludes)

\* C5 as stated: New returns a non-nil error whenever any include or exclude
\* string is malformed, for every combination of inputs, and the error holds
\* one syntax error per malformed string.
C5_ErrorWheneverMalformed ==
    (call.op = "New" /\ Malformed(includes) + Malformed(excludes) > 0)
    => (err /= <<>> /\ Len(err) = Malformed(includes) + Malformed(excludes))

\* C5 amended: when New compiles (includes non-empty, no "**" among the
\* excludes, and not at once no excludes and "**" among the includes) it
\* returns a nil Glob and one syntax error per malformed string, and a
\* matchGlob and a nil error when no string is malformed; when it does not
\* compile it returns a nil error, malformed strings or not.
C5_ErrorPerMalformedWhenCompiled ==
    call.op = "New"
    => IF ShortCircuits THEN err = <<>> /\ glob.kind \in {"all", "none"}
       ELSE /\ Len(err) = Malformed(includes) + Malformed(excludes)
            /\ (err /= <<>> => glob = NilGlob)
            /\ (err = <<>> => glob.kind = "match")

\* New compiled lists with two malformed strings among them and reported both.
C5_Witness ==
    /\ call.op = "New"
    /\ ~ShortCircuits
    /\ Malformed(includes) = 2
    /\ Len(excludes) > 0
    /\ Len(err) = 2

\* The directories the last Match listed without an error.
ListedOk ==
    {out[i].path : i \in {j \in 1..Len(out) : out[j].op = "ReadDir" /\ out[j].err = "nil"}}

\* ReadDir or Stat was called on p or below it.
Touched(p) ==
    \E i \in 1..Len(out) : out[i].op \in {"ReadDir", "Stat"} /\ IsPrefix(p, out[i].path)

\* Directory d was met while its parent was listed, and advancing the parent's
\* include patterns over its name leaves no pattern.
NoIncludeLeft(d) ==
    /\ d /= <<>>
    /\ Parent(d) \in ListedOk
    /\ IsPrefix(call.dir, Parent(d))
    /\ advance(IncAt(Rel(Parent(d))), Last(d), FALSE).patterns = <<>>

\* C6: a directory met while listing its parent, whose next-level include set
\* is empty, is never listed or probed, nor is anything below it.
C6_PrunedDirsNeverRead ==
    (call.op = "Match" /\ glob.kind = "match")
    => \A d \in fsys.dirs : NoIncludeLeft(d) => ~Touched(d)

\* A listed directory holds a directory with entries of its own that no
\* include pattern reaches, and that directory was emitted but not read.
C6_Witness ==
    /\ call.op = "Match"
    /\ glob.kind = "match"
    /\ \E d \in fsys.dirs :
           /\ NoIncludeLeft(d)
           /\ \E q \in fsys.files : Below(q, d)
           /\ d \in Emitted
           /\ ~Touched(d)

\* Directory d (below the start directory) is excluded: an active exclude
\* pattern signals an immediate match on it, or its next-level exclude set
\* holds the whole-tree wildcard.
ExcludedDir(d) ==
    /\ Below(d, call.dir)
    /\ call.dir \in fsys.dirs
    /\ (ExcludedHere(Rel(d)) \/ always(ExcAt(Rel(d))))

VendorGlob == includes = <<StarStar>> /\ excludes = <<A \o <<"/">> \o StarStar>>

\* C7: an excluded directory is never listed and nothing below it is emitted
\* or probed; with includes ["**"] and excludes ["a/**"] everything outside a
\* is emitted.
C7_ExcludedSubtreesNeverRead ==
    (call.op = "Match" /\ glob.kind = "match")
    => /\ \A d \in fsys.dirs :
              ExcludedDir(d)
              => /\ d \notin Listed
                 /\ \A i \in 1..Len(out) : ~Below(out[i].path, d)
       /\ (VendorGlob /\ FullMatchRun /\ call.dir = <<>>)
              => \A p \in Candidates : ~IsPrefix(<<A>>, p) => p \in Emitted

\* includes ["**"], excludes ["a/**"]: a has an entry, b is emitted, a is not
\* listed.
C7_Witness ==
    /\ VendorGlob
    /\ FullMatchRun
    /\ call.dir = <<>>
    /\ <<A>> \in fsys.dirs
    /\ \E q \in fsys.files : Below(q, <<A>>)
    /\ <<B>> \in Emitted
    /\ <<>> \in Listed
    /\ <<A>> \notin Listed

\* The entries below directory x an unconditional listing gives: every file,
\* and every directory when directories are asked for.
AllBelow(x) ==
    {p \in fsys.files : Below(p, x)}
    \cup (IF call.includeDirs THEN {p \in fsys.dirs : Below(p, x)} ELSE {})

\* In directory x of a general traversal the include set holds the single-term
\* "**" pattern, the exclude set is empty and nothing above x is pruned.
WholeTreeAt(x) ==
    /\ IsPrefix(call.dir, x)
    /\ ~Pruned(Rel(x))
    /\ always(IncAt(Rel(x)))
    /\ ExcAt(Rel(x)) = <<>>

\* C8: New(["**"], nil).Match emits exactly the files under the start
\* directory and, if and only if includeDirs, the directories strictly under
\* it, each with a nil error; so does a general traversal below a directory
\* where the include set holds "**" and the exclude set is empty.
C8_WholeTreeEquivalence ==
    (FullMatchRun /\ call.dir \in fsys.dirs)
    => /\ glob.kind = "all"
              => /\ Emitted = AllBelow(call.dir)
                 /\ \A i \in YieldsAt(out) : out[i].err = "nil"
       /\ glob.kind = "match"
              => \A x \in fsys.dirs :
                     WholeTreeAt(x) => {p \in Emitted : Below(p, x)} = AllBelow(x)

\* The match-all Glob walked a tree with a file in a directory, directories
\* not asked for: the file is emitted and its directory is not.
C8_Witness ==
    /\ FullMatchRun
    /\ glob.kind = "all"
    /\ call.dir = <<>>
    /\ ~call.includeDirs
    /\ <<A>> \in fsys.dirs
    /\ <<A, B>> \in fsys.files
    /\ Emitted = fsys.files

\* C9: a Glob built from no includes, or from excludes that hold "**", matches
\* nothing: Match makes no call at all (no yield, no ReadDir, no Stat) and
\* MatchPath is false.
C9_NoneGlobMatchesNothing ==
    (call.op \in {"Match", "MatchPath"}
        /\ (Len(includes) = 0 \/ ContainsStarStar(excludes)))
    => (out = <<>> /\ ret = FALSE)

\* "**" stands beside another exclude, the includes would match the tree's
\* file, and Match made no call.
C9_Witness ==
    /\ call.op = "Match"
    /\ Len(includes) > 0
    /\ Len(excludes) = 2
    /\ ContainsStarStar(excludes)
    /\ AnyFullMatch(includes, <<B>>)
    /\ <<B>> \in fsys.files
    /\ out = <<>>

\* The yields of a run, in order.
YieldSeq(log) == SelectSeq(log, LAMBDA e : e.op = "yield")

\* The tree without directory d and everything below it, and without failures.
WithoutDir(t, d) ==
    [dirs |-> {p \in t.dirs : ~IsPrefix(d, p)},
     files |-> {p \in t.files : ~IsPrefix(d, p)},
     failRead |-> {}, failStat |-> {}]

\* C10: when ReadDir of directory d fails and the consumer goes on, Match
\* emits exactly one item for d, (d, err); calls ReadDir on d once and makes
\* no call on anything below d; and emits everything else exactly as it would
\* were d absent.
C10_ListingFailureIsLocal ==
    (call.op = "Match" /\ call.stopAt = 0)
    => \A d \in fsys.failRead :
           (d \in Listed)
           => /\ Cardinality({i \in YieldsAt(out) : out[i].path = d}) = 1
              /\ \A i \in YieldsAt(out) : out[i].path = d => out[i].err /= "nil"
              /\ Cardinality({i \in 1..Len(out) :
                                 out[i].op = "ReadDir" /\ out[i].path = d}) = 1
              /\ \A i \in 1..Len(out) :
                     out[i].op \in {"ReadDir", "Stat"} => ~Below(out[i].path, d)
              /\ d /= call.dir
                     => SelectSeq(YieldSeq(out), LAMBDA e : e.path /= d)
                        = YieldSeq(Match(glob, WithoutDir(fsys, d), call.dir,
                                         call.includeDirs, 0).log)

\* The listing of directory a failed, a holds an entry, and the walker went on
\* to emit b after reporting a.
C10_Witness ==
    /\ call.op = "Match"
    /\ fsys.failRead = {<<A>>}
    /\ \E q \in fsys.files : Below(q, <<A>>)
    /\ \E i, j \in YieldsAt(out) :
           /\ i < j
           /\ out[i].path = <<A>> /\ out[i].err /= "nil"
           /\ out[j].path = <<B>> /\ out[j].err = "nil"

\* The yields of the last Match that carry an error.
ErrorItems == {i \in YieldsAt(out) : out[i].err /= "nil"}

\* ReadDir was called on d and failed.
ListingFailed(d) ==
    \E j \in 1..Len(out) :
        out[j].op = "ReadDir" /\ out[j].path = d /\ out[j].err /= "nil"

\* C11: every item emitted with a non-nil error has as its path a directory
\* whose entries Match tried to list and failed to list, the literal
\* fast-path's existence probe included.
C11_ErrorItemsNameFailedListings ==
    call.op = "Match"
    => \A i \in ErrorItems : ListingFailed(out[i].path)

\* The log ends with the yield at which the consumer returned false.
StoppedAtLast ==
    /\ out /= <<>>
    /\ out[Len(out)].op = "yield"
    /\ Cardinality(YieldsAt(out)) = call.stopAt

\* C12: once the consumer's yield callback has returned false, the traversal
\* makes no further ReadDir, Stat or yield call: a consumer that stops at its
\* n-th item sees at most n yields, and when it sees n the n-th is the last
\* call of the traversal.
C12_CancellationStopsAllCalls ==
    (call.op = "Match" /\ call.stopAt > 0)
    => /\ Cardinality(YieldsAt(out)) <= call.stopAt
       /\ Cardinality(YieldsAt(out)) = call.stopAt => StoppedAtLast

\* The consumer stopped at its first item, which came from two directory
\* levels down, while the uncancelled traversal goes on to more calls.
C12_Witness ==
    /\ call.op = "Match"
    /\ call.stopAt = 1
    /\ StoppedAtLast
    /\ Len(out[Len(out)].path) >= 2
    /\ Len(Match(glob, fsys, call.dir, call.includeDirs, 0).log) > Len(out) + 1

\* The probes of the last Match that found nothing: fs.Stat returned an error
\* that is fs.ErrNotExist.
ProbeMisses == {i \in 1..Len(out) : out[i].op = "Stat" /\ out[i].err = "ErrNotExist"}

\* matchStep called on directory d alone, with the pattern sets active in d.
StepAt(d) ==
    matchStep(NewTraversal(0), fsys, d, FALSE, call.includeDirs,
              IncAt(Rel(d)), ExcAt(Rel(d)))

\* C14: in the literal fast-path a probed path that does not exist is a
\* non-match and not an error: no item, match or error, is emitted for it, the
\* matchStep call that probed makes no other call and returns true so that the
\* traversal continues; includes ["a/*"] on a tree with no a yields nothing.
C14_MissingProbeIsNoMatch ==
    (call.op = "Match" /\ glob.kind = "match")
    => /\ \A i \in ProbeMisses :
              /\ \A j \in YieldsAt(out) : out[j].path /= out[i].path
              /\ i < Len(out) => ~(out[i + 1].op = "yield" /\ out[i + 1].err /= "nil")
              /\ StepAt(Parent(out[i].path)).ok
              /\ StepAt(Parent(out[i].path)).t.log = <<out[i]>>
       /\ (includes = <<A \o <<"/">> \o Star>> /\ <<A>> \notin fsys.dirs \cup fsys.files)
              => YieldsAt(out) = {}

\* The probe for a/a found nothing, nothing was emitted for a/a, and the
\* walker went on to probe and emit b/a.
C14_Witness ==
    /\ call.op = "Match"
    /\ <<A>> \in fsys.dirs
    /\ <<B, A>> \in fsys.files
    /\ \E i \in ProbeMisses :
           /\ out[i].path = <<A, A>>
           /\ \E j \in YieldsAt(out) :
                  j > i /\ out[j].path = <<B, A>> /\ out[j].err = "nil"
    /\ \A j \in YieldsAt(out) : out[j].path /= <<A, A>>

\* The include set the walker uses in the directory rel: the set advanced from
\* the Glob's, which matchStep replaces by the lone "**" pattern when it holds
\* one.
WalkIncAt(rel) == IF always(IncAt(rel)) THEN << <<StarStar>> >> ELSE IncAt(rel)

\* C15: multi-term patterns never match files: a plain file is emitted only if
\* some include pattern active in its directory has exactly one remaining term
\* and that term is "**" or globs the file's name, whether the walker listed
\* the directory or probed the file.
C15_FilesNeedOneTermPattern ==
    (FullMatchRun /\ glob.kind = "match")
    => \A p \in Emitted \cap fsys.files :
           anyMatchFile(WalkIncAt(Rel(Parent(p))), Last(p))

\* C16: a directory is emitted with a nil error only if includeDirs is true
\* and some include pattern active at its parent signalled an immediate match
\* on its name; a directory that patterns only pass through is not emitted.
C16_DirsNeedImmediateMatch ==
    (FullMatchRun /\ glob.kind \in {"match", "all"})
    => \A d \in Emitted \cap fsys.dirs :
           call.includeDirs /\ IncludedHere(Rel(d))

\* Pattern string s has more than one term, the first being "**".
LeadingStarStar(s) == Len(TermsOf(s)) > 1 /\ TermsOf(s)[1] = StarStar

\* The compiled list holds ts followed at once by ts without its first term.
HoldsWithSuffix(list, ts) ==
    \E k \in 1..(Len(list) - 1) : list[k] = ts /\ list[k + 1] = Tail(ts)

\* The includes are the one string "**/X", X a term other than "**", and there
\* are no excludes.
AnyDepthGlob == Len(includes) = 1 /\ excludes = <<>>
                /\ Len(TermsOf(includes[1])) = 2
                /\ TermsOf(includes[1])[1] = StarStar
                /\ TermsOf(includes[1])[2] /= StarStar

\* C17: compiling a string of more than one term that starts with "**" adds
\* the full pattern and its suffix without the "**"; so for includes ["**/X"]
\* and no excludes Match emits the files under the start directory, at every
\* depth and directly in it, whose name matches X, and no other file.
C17_LeadingStarStarDuplicated ==
    /\ glob.kind = "match"
           => /\ \A i \in 1..Len(includes) :
                     LeadingStarStar(includes[i])
                     => HoldsWithSuffix(glob.include, TermsOf(includes[i]))
              /\ \A i \in 1..Len(excludes) :
                     LeadingStarStar(excludes[i])
                     => HoldsWithSuffix(glob.exclude, TermsOf(excludes[i]))
    /\ (FullMatchRun /\ AnyDepthGlob /\ call.dir \in fsys.dirs)
           => Emitted \cap fsys.files
              = {f \in fsys.files : Below(f, call.dir)
                                    /\ match(TermsOf(includes[1])[2], Last(f))}

\* includes ["**/a"]: the tree holds a file a in the root and one in the
\* directory b; both are emitted, and the directory is not.
C17_Witness ==
    /\ FullMatchRun
    /\ includes = <<StarStar \o <<"/">> \o A>>
    /\ excludes = <<>>
    /\ call.dir = <<>>
    /\ call.includeDirs
    /\ fsys.files = {<<A>>, <<B, A>>}
    /\ Emitted = {<<A>>, <<B, A>>}

\* The extra include strings: the patterns of one or two literal terms.
ExtraStrings == PatternStrings({A, B}, 1) \cup PatternStrings({A, B}, 2)

\* Pattern string x matches no path of the tree below the start directory.
MatchesNoPath(x) ==
    \A p \in fsys.dirs \cup fsys.files :
        Below(p, call.dir) => ~FullMatch(TermsOf(x), Rel(p))

\* What Match emits for the last call's arguments when x is added to the
\* includes.
EmittedWithExtra(x) ==
    EmittedIn(Match(New(Append(includes, x), excludes).glob, fsys, call.dir,
                    call.includeDirs, 0).log)

\* C18: the literal fast-path is a pure optimisation: on an error-free tree
\* Match emits for includes I the same set of paths as for I plus one extra
\* include pattern that matches no path in the tree.
C18_FastPathIsPureOptimisation ==
    (FullMatchRun /\ glob.kind = "match" /\ call.dir \in fsys.dirs)
    => \A x \in ExtraStrings : MatchesNoPath(x) => Emitted = EmittedWithExtra(x)

\* The items of the last Match, match and error items alike, that name path p.
ItemsFor(p) == {i \in YieldsAt(out) : out[i].path = p}

\* C19: no path is emitted twice: in one Match traversal every path is named
\* by at most one emitted item, match and error items counted together.
C19_NoPathEmittedTwice ==
    call.op = "Match"
    => \A i, j \in YieldsAt(out) : out[i].path = out[j].path => i = j

\* Two include patterns match the directory a, which is emitted once and
\* descended into, the file in it is emitted once, and the directory b whose
\* listing fails is named by one error item.
C19_Witness ==
    /\ call.op = "Match"
    /\ call.includeDirs
    /\ fsys.failRead = {<<B>>}
    /\ Cardinality(ItemsFor(<<B>>)) = 1
    /\ Len(glob.include) >= 2
    /\ Cardinality({k \in 1..Len(glob.include) :
                       matchDir(glob.include[k], A, <<>>).ok}) >= 2
    /\ <<A>> \in ListedOk
    /\ Cardinality(ItemsFor(<<A>>)) = 1
    /\ \E f \in fsys.files : Below(f, <<A>>) /\ Cardinality(ItemsFor(f)) = 1

\* Every array of heap h0 is in heap h, cell for cell as it is in h0.
Untouched(h0, h) == Len(h0) <= Len(h) /\ SubSeq(h, 1, Len(h0)) = h0

\* C13: a compiled Glob is read-only: after any calls of Match and MatchPath
\* on it, every array New built (the two lists with their spare cells and
\* every pattern's terms) is as New left it and the Glob's slices denote the
\* compiled sets; a call writes to no array that was there before it, the
\* arrays of earlier calls included, so calls cannot disturb each other
\* however they are interleaved; and each call answers as it does when run
\* alone on the Glob as New left it.
C13_GlobIsReadOnly ==
    (mem.calls > 0)
    => /\ Untouched(mem.built, mem.heap)
       /\ Untouched(mem.before, mem.heap)
       /\ glob.kind = "match"
              => /\ patternsAt(mem.heap, mem.include) = glob.include
                 /\ patternsAt(mem.heap, mem.exclude) = glob.exclude
       /\ call.op = "Match"
              => /\ out = MatchMem(mem.built, GlobMem, fsys, call.dir,
                                   call.includeDirs, 0, NoConsumer).log
                 /\ out = Match(glob, fsys, call.dir, call.includeDirs, 0).log
                 /\ mem.clean
                 /\ \A k \in 1..Len(mem.answers) :
                        /\ mem.consumer.op = "MatchPath"
                               => mem.answers[k] = MatchPath(glob, mem.consumer.path)
                        /\ mem.consumer.op = "Match"
                               => mem.answers[k] = out
       /\ call.op = "MatchPath"
              => /\ ret = MatchPathMem(mem.built, GlobMem, call.path).ret
                 /\ ret = MatchPath(glob, call.path)

\* A Glob whose include list has a spare cell was walked by a traversal that
\* went down a level, writing to slices of its own, while its consumer called
\* MatchPath on the Glob at each of two or more items; those calls wrote to
\* slices of their own in the same heap and answered true.
C13_Witness ==
    /\ call.op = "Match"
    /\ glob.kind = "match"
    /\ mem.include.len < capacity(mem.heap, mem.include)
    /\ mem.consumer.op = "MatchPath"
    /\ Len(mem.answers) >= 2
    /\ mem.answers[1]
    /\ \E d \in ListedOk : Len(d) = 1
    /\ Len(mem.before) + 4 <= Len(mem.heap)

====
